---- MODULE Spec2Model ----
(***************************************************************************)
(* Model of the Pico W TLS client (TLS_client/tls_common.c and the retrying *)
(* driver init_client of TLS_client/src/client.h).                          *)
(*                                                                          *)
(* One attempt is one call of run_tls_client_test.  Attempt a owns the      *)
(* handle TLS_CLIENT_T number a (fields pcb, complete, error) and at most   *)
(* one connection object (altcp pcb) number a.  The transport (lwIP) and    *)
(* the resolver are the environment: they deliver a callback only while it  *)
(* is registered on a live connection object, one callback at a time, each  *)
(* running to completion (pico_cyw43_arch_lwip_threadsafe_background).      *)
(*                                                                          *)
(* The server (src/server.c, and its run_server variant with hooks) is the  *)
(* record srv: the loop of init_server, handle_ssl_connection on the bytes  *)
(* of a request, and url_decode.  Text is a sequence of bytes.              *)
(***************************************************************************)
EXTENDS Integers, FiniteSets, Sequences, TLC

\* ---- program constants ----
RETRIES == 3
PICO_ERROR_NONE == 0
PICO_ERROR_TIMEOUT == -1
PICO_ERROR_GENERIC == -2

\* ---- bounds of the model ----
MaxChunks == 2
MaxLen == 2
MaxLate == 2

\* ---- text ----
\* A C string is the sequence of its bytes without the terminating NUL; a
\* comment beside each literal gives its text.
CRLF == <<13, 10>>
TOKEN_POST == <<80, 79, 83, 84, 32, 47>>                       \* "POST /"
TOKEN_CONTENT_LENGTH ==
  <<67, 111, 110, 116, 101, 110, 116, 45, 76, 101, 110, 103, 116, 104, 58, 32>>
                                                              \* "Content-Length: "

\* ---- the request of the client (client.c) ----
TLS_CLIENT_SERVER == <<49, 48, 46, 52, 50, 46, 48, 46, 49>>   \* "10.42.0.1"
MESSAGE ==
  <<104, 101, 108, 108, 111, 37, 50, 48, 119, 111, 114, 108, 100>>   \* "hello%20world"
\* A length text that is one short of the body.
MESSAGE_LEN_one_short == <<49, 50>>                            \* "12"
MESSAGE_LEN == <<49, 51>>                                      \* "13"
REQUEST_LINE ==
  <<80, 79, 83, 84, 32, 47, 32, 72, 84, 84, 80, 47, 49, 46, 49>>   \* "POST / HTTP/1.1"
HEADER_HOST ==
  <<72, 111, 115, 116, 58, 32>> \o TLS_CLIENT_SERVER   \* "Host: " TLS_CLIENT_SERVER
HEADER_CONNECTION ==
  <<67, 111, 110, 110, 101, 99, 116, 105, 111, 110, 58, 32, 99, 108, 111, 115, 101>>
                                                              \* "Connection: close"
HEADER_CONTENT_TYPE ==
  <<67, 111, 110, 116, 101, 110, 116, 45, 84, 121, 112, 101, 58, 32>> \o
  <<97, 112, 112, 108, 105, 99, 97, 116, 105, 111, 110, 47, 120, 45, 119, 119, 119, 45, 102, 111, 114, 109, 45, 117, 114, 108, 101, 110, 99, 111, 100, 101, 100>>
                             \* "Content-Type: application/x-www-form-urlencoded"
HEADER_CONTENT_LENGTH == TOKEN_CONTENT_LENGTH \o MESSAGE_LEN
TLS_CLIENT_HTTP_REQUEST ==
  REQUEST_LINE \o CRLF \o HEADER_HOST \o CRLF \o HEADER_CONNECTION \o CRLF \o
  HEADER_CONTENT_TYPE \o CRLF \o HEADER_CONTENT_LENGTH \o CRLF \o CRLF \o MESSAGE
\* How long a run of state->timeout the driver sets (client.h).
TIMEOUT == 10

NULL == "NULL"
PCB == "PCB"

\* init_client calls run_tls_client_test at most RETRIES times: every call
\* either passes (break) or decrements retries.
Attempts == 1..RETRIES

Slots == {"arg", "poll", "recv", "err"}
\* A connection object is "none" before altcp_tls_new, then "new",
\* "connecting" after altcp_connect, "established" after the connected signal,
\* "halfclosed" once the peer has closed, "closed" after altcp_close returned
\* ERR_OK and "aborted" after altcp_abort.  A slot that is still registered is
\* called as long as the object is not aborted: an orderly shutdown is only a
\* request, which is why tls_client_close clears the slots before it.
LiveConn == {"new", "connecting", "established", "halfclosed"}
Signalling == LiveConn \cup {"closed"}

\* ---------------------------------------------------------------------------
\* The server (server.c; the variant with hooks is run_server)
\* ---------------------------------------------------------------------------
BUFFER_SIZE == 1024
MESSAGE_SIZE == 256

\* ---- bounds of the server model ----
MaxIter == 2
MaxStr == 3

TOKEN_GET == <<71, 69, 84, 32, 47>>                                \* "GET /"
HTTP_VERSION == <<32, 72, 84, 84, 80, 47, 49, 46, 49>>         \* " HTTP/1.1"
RESPONSE == "HTTP/1.1 200 OK ... Hello from the server!"

\* ---- C library ----
Min(a, b) == IF a < b THEN a ELSE b
Take(s, n) == SubSeq(s, 1, Min(n, Len(s)))
Drop(s, n) == SubSeq(s, n + 1, Len(s))

\* The bytes of a buffer up to the first NUL: what a char * points at.
Least(I) == CHOOSE i \in I : \A j \in I : i <= j
strlen(b) ==
  LET nuls == {i \in 1..Len(b) : b[i] = 0}
  IN  IF nuls = {} THEN Len(b) ELSE Least(nuls) - 1
CStr(b) == SubSeq(b, 1, strlen(b))

\* strstr: the index of the first occurrence of n in h, 0 for a null result.
StrStr(h, n) ==
  LET at == {i \in 1..(Len(h) - Len(n) + 1) : SubSeq(h, i, i + Len(n) - 1) = n}
  IN  IF at = {} THEN 0 ELSE Least(at)

\* strncmp(b, t, strlen(t)) == 0
StartsWith(b, t) == Len(b) >= Len(t) /\ SubSeq(b, 1, Len(t)) = t

IsSpace(c) == c = 32 \/ c \in 9..13
IsDigit(c) == c \in 48..57
IsXDigit(c) == c \in 48..57 \/ c \in 65..70 \/ c \in 97..102
XVal(c) == IF c \in 48..57 THEN c - 48
           ELSE IF c \in 65..70 THEN c - 55 ELSE c - 87

\* atoi: white space, an optional sign, then decimal digits.
RECURSIVE SkipSpace(_, _)
SkipSpace(s, i) ==
  IF i <= Len(s) /\ IsSpace(s[i]) THEN SkipSpace(s, i + 1) ELSE i
RECURSIVE Digits(_, _, _)
Digits(s, i, acc) ==
  IF i <= Len(s) /\ IsDigit(s[i]) THEN Digits(s, i + 1, 10 * acc + (s[i] - 48))
  ELSE acc
atoi(s) ==
  LET i == SkipSpace(s, 1)
  IN  IF i <= Len(s) /\ s[i] = 45 THEN 0 - Digits(s, i + 1, 0)
      ELSE IF i <= Len(s) /\ s[i] = 43 THEN Digits(s, i + 1, 0)
      ELSE Digits(s, i, 0)

\* strtol(hex, NULL, 16) of the two characters c1 c2: white space, an optional
\* sign, then as many hexadecimal digits as there are; 0 when there is none.
strtol16(c1, c2) ==
  IF IsSpace(c1) \/ c1 = 43 THEN (IF IsXDigit(c2) THEN XVal(c2) ELSE 0)
  ELSE IF c1 = 45 THEN (IF IsXDigit(c2) THEN 0 - XVal(c2) ELSE 0)
  ELSE IF IsXDigit(c1)
    THEN (IF IsXDigit(c2) THEN 16 * XVal(c1) + XVal(c2) ELSE XVal(c1))
  ELSE 0

\* ---- url_decode ----
\* str and pos walk the same buffer with pos <= str, so every byte is read
\* before it is overwritten.  The result is every byte written before the
\* final NUL; what the caller sees as a string is CStr of it.
RECURSIVE url_decode_from(_, _, _)
url_decode_from(str, i, out) ==
  IF i > Len(str) THEN out
  ELSE IF str[i] = 37 /\ i + 2 <= Len(str)
    THEN url_decode_from(str, i + 3,
           Append(out, strtol16(str[i + 1], str[i + 2]) % 256))
    ELSE url_decode_from(str, i + 1, Append(out, str[i]))

url_decode(str) == url_decode_from(CStr(str), 1, <<>>)

\* An int stored in a uint64_t or a uint32_t: a negative value becomes one
\* above 2^31, and every such value is compared and used alike below, so one
\* of them stands for all.
WRAPPED == 2147483647
ToUnsigned(n) == IF n < 0 THEN WRAPPED ELSE n

\* ---- handle_ssl_connection ----
\* r is what SSL_read returned (an int, kept in a uint64_t), data what the
\* buffer holds afterwards, func_ptrs the hook array, ub the outcome of a
\* write outside buffer or message.  The result says how the call ended
\* ("return", "exit", "fault"), what it called (log) and the decoded message.
\* term is the index at which the terminator of buffer was written, body
\* where post_data_start points ("skipped" when the body is not processed),
\* copied the number of bytes strncpy wrote into message (indices 0 to
\* copied - 1) and msgTerm the index of message's terminator; -1 is "not
\* written".
Gone(how) ==
  [end |-> how, log |-> <<>>, message |-> <<>>,
   term |-> 0 - 1, body |-> "skipped", copied |-> 0 - 1, msgTerm |-> 0 - 1]

handle_ssl_connection(r, data, func_ptrs, ub) ==
  LET bytes_received == ToUnsigned(r)
      buffer == CStr(data)
      clAt == StrStr(buffer, TOKEN_CONTENT_LENGTH)
      content_length ==
        ToUnsigned(atoi(Drop(buffer, clAt + Len(TOKEN_CONTENT_LENGTH) - 1)))
      sepAt == StrStr(buffer, CRLF \o CRLF)
      post_data == Take(Drop(buffer, sepAt + 3), content_length)
      body == IF sepAt = 0 THEN "notfound+4" ELSE "found"
      read(how) == [Gone(how) EXCEPT !.term = bytes_received]
      done == [read("return") EXCEPT !.log = func_ptrs \o <<RESPONSE>>,
                                     !.message = CStr(url_decode(post_data)),
                                     !.body = body,
                                     !.copied = content_length,
                                     !.msgTerm = content_length]
  IN  IF bytes_received = 0 THEN Gone("exit")
      ELSE IF bytes_received > BUFFER_SIZE - 1 /\ ub = "fault" THEN read("fault")
      ELSE IF ~StartsWith(buffer, TOKEN_POST)
        THEN [read("return") EXCEPT !.log = <<RESPONSE>>]
      ELSE IF clAt = 0 THEN read("return")
      ELSE IF sepAt = 0
        \* post_data_start is (char *)4: nothing is read from it when
        \* content_length is 0, else the read faults
        THEN IF content_length = 0
               THEN [done EXCEPT !.message = <<>>]
               ELSE [read("fault") EXCEPT !.body = body]
      ELSE IF content_length >= MESSAGE_SIZE /\ ub = "fault"
        THEN [read("fault") EXCEPT !.body = body, !.copied = content_length]
      ELSE done

\* ---- what a client may send ----
\* A request line, an optional Content-Length header (cl is its text, <<>>
\* for none) and, when sep, the blank line and the body.
Request(method, cl, sep, body) ==
  method \o HTTP_VERSION \o CRLF \o
  (IF cl = <<>> THEN <<>> ELSE TOKEN_CONTENT_LENGTH \o cl \o CRLF) \o
  (IF sep THEN CRLF \o body ELSE <<>>)

Methods == {TOKEN_POST, TOKEN_GET}
ContentLengths == {<<>>, <<48>>, <<53>>, MESSAGE_LEN, <<51, 48, 48>>, <<45, 49>>}
                                          \* none, "0", "5", "13", "300", "-1"
Bodies == {<<>>, <<97, 37, 50, 48, 98>>, MESSAGE}     \* "", "a%20b", MESSAGE
Requests ==
  {Request(m, cl, sep, b) :
     m \in Methods, cl \in ContentLengths, sep \in BOOLEAN, b \in Bodies}
  \cup {TLS_CLIENT_HTTP_REQUEST}

\* The hook arrays run_server is started with; init_server has none.
HookArrays == {<<>>, <<"func1", "func2">>}

\* Inputs of url_decode: every string of at most MaxStr of these bytes, and
\* the body the client sends.
DecodeAlphabet == {37, 50, 48, 122, 104}              \* % 2 0 z h
DecodeInputs ==
  UNION {[1..n -> DecodeAlphabet] : n \in 0..MaxStr} \cup {MESSAGE}

\* The server process: where init_server / run_server stands (spc), what it
\* holds (ctx, sock, client, ssl), what it has done (iter, accepts, reads),
\* the last read (asked, got, buffer) and the last handle_ssl_connection
\* (out).  decIn, decOut, decDone are one call of url_decode on its own, and
\* decBuf, decStr, decPos, decRead, decEsc the same call taken one iteration
\* of its while loop at a time.
ServerIdle ==
  [ mode      |-> "off",     \* "off", "server", "decode", "inplace"
    spc       |-> "top",     \* "top", "accepting", "handshaking", "reading",
                             \* "exited", "crashed"
    func_ptrs |-> <<>>,      \* the hook array
    iter      |-> 0,         \* iterations of while (1) begun
    ctx       |-> 0,         \* SSL_CTX objects not freed
    sock      |-> 0,         \* listening sockets not closed
    client    |-> 0,         \* client sockets not closed
    ssl       |-> 0,         \* SSL objects not freed
    accepts   |-> 0,         \* accept calls
    reads     |-> 0,         \* SSL_read calls
    asked     |-> 0,         \* the size given to the last SSL_read
    got       |-> 0,         \* what the last SSL_read returned
    buffer    |-> <<>>,      \* char buffer[BUFFER_SIZE]
    out       |-> Gone("none"),
    decIn     |-> <<>>,
    decOut    |-> <<>>,
    decDone   |-> FALSE,
    decBuf    |-> <<>>,      \* the buffer url_decode works in, NUL included
    decStr    |-> 0,         \* str, as an index into the buffer
    decPos    |-> 0,         \* pos, as an index into the buffer
    decRead   |-> 0,         \* the highest index read
    decEsc    |-> 0 ]        \* escapes decoded

VARIABLES
  pc,         \* position of init_client
  retries,    \* int8_t retries
  linkFails,  \* failed cyw43_arch_wifi_connect_timeout_ms calls
  runCalls,   \* calls of run_tls_client_test; the current attempt
  printed,    \* lines init_client has printed
  cfgLive,    \* transport configurations created and not yet freed
  att,        \* per attempt: the handle, its connection object, its history
  memFault,   \* an access through a null or freed handle happened
  lateCount,  \* signals delivered to an already closed handle (SpecLate only)
  srv         \* the server process (server.c), see ServerIdle

clientVars == <<pc, retries, linkFails, runCalls, printed, cfgLive, att, memFault, lateCount>>
vars == <<pc, retries, linkFails, runCalls, printed, cfgLive, att, memFault, lateCount, srv>>

\* The handle TLS_CLIENT_T (alloc, pcb, complete, error), the locals of the
\* run_tls_client_test call that owns it (err, result), the connection object
\* behind pcb (cst, cbs), the resolver request (dns), and what has happened
\* to them so far.
NoAttempt ==
  [ alloc      |-> "unalloc",        \* "unalloc", "null", "live", "freed"
    pcb        |-> NULL,             \* state->pcb
    complete   |-> FALSE,            \* state->complete
    error      |-> PICO_ERROR_NONE,  \* state->error
    errWrites  |-> 0,                \* assignments to state->error
    err        |-> 0,                \* local int err of run_tls_client_test
    result     |-> "none",           \* return value of run_tls_client_test
    cst        |-> "none",           \* connection object
    cbs        |-> {},               \* callback slots registered on it
    dns        |-> "none",           \* "none", "pending", "done"
    closeCalls |-> 0,                \* calls of tls_client_close on the handle
    wrongClose |-> FALSE,            \* tls_client_close called on a non-handle
    shutdowns  |-> 0,                \* altcp_close calls
    aborts     |-> 0,                \* altcp_abort calls
    connects   |-> 0,                \* altcp_connect calls on a connection object
    writes     |-> 0,                \* altcp_write calls
    chunks     |-> 0,                \* non-null chunks handled
    acked      |-> 0,                \* bytes acknowledged with altcp_recved
    freed      |-> 0,                \* pbuf_free calls
    nullRead   |-> FALSE,            \* a field of an absent chunk was read
    cfg        |-> "none",           \* tls_config of this call: "none", "live", "freed"
    timeout    |-> 0,                \* state->timeout
    pollTicks  |-> 0,                \* interval given to altcp_poll (u8_t)
    http_request |-> "none",         \* state->http_request, a pointer
    sent       |-> <<>>,             \* bytes handed to altcp_write
    openRet    |-> "none",           \* return value of tls_client_open
    rcvd       |-> 0,                \* bytes of the non-null chunks delivered
    order      |-> <<>>,             \* the statements of tls_client_close, as run
    slotsAtShutdown |-> {},          \* slots registered when altcp_close was called
    closeRet   |-> "none",           \* what the last tls_client_close returned
    cbRet      |-> "none",           \* what the last err_t callback returned
    connectCalls |-> 0,              \* altcp_connect calls, on a connection or on NULL
    sigs       |-> {} ]              \* signals the attempt has seen

ClientInit ==
  /\ pc = "start"
  /\ retries = RETRIES
  /\ linkFails = 0
  /\ runCalls = 0
  /\ printed = {}
  /\ cfgLive = 0
  /\ att = [a \in Attempts |-> NoAttempt]
  /\ memFault = FALSE
  /\ lateCount = 0

Init == ClientInit /\ srv = ServerIdle

Saw(s, x) == [s EXCEPT !.sigs = @ \cup x]

\* ---- tls_client_close, statement by statement ----
\* "state->complete = true"
close_complete(s) ==
  [s EXCEPT !.complete = TRUE,
            !.closeCalls = @ + 1,
            !.closeRet = "ERR_OK",
            !.order = Append(@, "complete")]

\* altcp_arg, altcp_poll, altcp_recv, altcp_err with NULL
close_unregister(s) ==
  [s EXCEPT !.cbs = @ \ Slots,
            !.order = @ \o <<"arg", "poll", "recv", "err">>]

\* A shutdown that aborts without "err = ERR_ABRT".
close_shutdown_keeps_ok(s, closeOk) ==
  [s EXCEPT !.shutdowns = @ + 1,
            !.slotsAtShutdown = @ \cup s.cbs,
            !.aborts = IF closeOk THEN @ ELSE @ + 1,
            !.cst = IF closeOk THEN "closed" ELSE "aborted",
            !.order = @ \o (IF closeOk THEN <<"shutdown">>
                                       ELSE <<"shutdown", "abort">>)]

\* altcp_close and, when it fails (~closeOk), altcp_abort and err = ERR_ABRT.
\* slotsAtShutdown is what was still registered on the connection object at
\* that moment.
close_shutdown(s, closeOk) ==
  [s EXCEPT !.shutdowns = @ + 1,
            !.slotsAtShutdown = @ \cup s.cbs,
            !.aborts = IF closeOk THEN @ ELSE @ + 1,
            !.cst = IF closeOk THEN "closed" ELSE "aborted",
            !.closeRet = IF closeOk THEN "ERR_OK" ELSE "ERR_ABRT",
            !.order = @ \o (IF closeOk THEN <<"shutdown">>
                                       ELSE <<"shutdown", "abort">>)]

\* "state->pcb = NULL"
close_null(s) ==
  [s EXCEPT !.pcb = NULL, !.order = Append(@, "null")]

\* A close that forgets "state->pcb = NULL".
tls_client_close_keeps_pcb(s, closeOk) ==
  IF s.pcb # NULL
    THEN close_shutdown(close_unregister(close_complete(s)), closeOk)
    ELSE close_complete(s)

\* A close that requests the shutdown without clearing the callback slots.
tls_client_close_keeps_slots(s, closeOk) ==
  IF s.pcb # NULL
    THEN close_null(close_shutdown(close_complete(s), closeOk))
    ELSE close_complete(s)

\* A close that leaves the received-data callback registered.
tls_client_close_keeps_recv(s, closeOk) ==
  IF s.pcb # NULL
    THEN close_null(close_shutdown(
           [close_complete(s) EXCEPT !.cbs = @ \ {"arg", "poll", "err"},
                                     !.order = @ \o <<"arg", "poll", "err">>],
           closeOk))
    ELSE close_complete(s)

\* A close that requests the shutdown first and clears the slots afterwards.
tls_client_close_shuts_down_first(s, closeOk) ==
  IF s.pcb # NULL
    THEN close_null(close_unregister(close_shutdown(close_complete(s), closeOk)))
    ELSE close_complete(s)

\* A close that tears down whether or not there is a connection.
tls_client_close_unconditional(s, closeOk) ==
  close_null(close_shutdown(close_unregister(close_complete(s)), closeOk))

\* ---- tls_client_close: closeOk is altcp_close returning ERR_OK ----
tls_client_close(s, closeOk) ==
  IF s.pcb # NULL
    THEN close_null(close_shutdown(close_unregister(close_complete(s)), closeOk))
    ELSE close_complete(s)

\* What the pointer state->http_request points at.
Deref(p) == IF p = "TLS_CLIENT_HTTP_REQUEST" THEN TLS_CLIENT_HTTP_REQUEST ELSE <<>>

\* "return tls_client_close(state)" in a callback that returns err_t.
ReturnClose(s, closeOk) ==
  LET c == tls_client_close(s, closeOk) IN [c EXCEPT !.cbRet = c.closeRet]

\* A connected handler that writes the request before it looks at err.
tls_client_connected_writes_first(s, status, writeOk, closeOk) ==
  IF ~status
    THEN ReturnClose([Saw(s, {"connect_failed"}) EXCEPT !.writes = @ + 1], closeOk)
    ELSE IF ~writeOk
      THEN ReturnClose(
             [Saw(s, {"connected", "write_failed"}) EXCEPT !.writes = @ + 1], closeOk)
      ELSE [Saw(s, {"connected", "written"}) EXCEPT !.writes = @ + 1,
                                                     !.sent = Deref(s.http_request),
                                                     !.cbRet = "ERR_OK",
                                                     !.cst = "established"]

\* ---- tls_client_connected: status is err == ERR_OK, writeOk is altcp_write ----
\* altcp_write is given strlen(state->http_request) bytes of the request.
tls_client_connected(s, status, writeOk, closeOk) ==
  IF ~status
    THEN ReturnClose(Saw(s, {"connect_failed"}), closeOk)
    ELSE IF ~writeOk
      THEN ReturnClose(
             [Saw(s, {"connected", "write_failed"}) EXCEPT !.writes = @ + 1], closeOk)
      ELSE [Saw(s, {"connected", "written"}) EXCEPT !.writes = @ + 1,
                                                     !.sent = Deref(s.http_request),
                                                     !.cbRet = "ERR_OK",
                                                     !.cst = "established"]

\* ---- tls_client_poll ----
tls_client_poll(s, closeOk) ==
  ReturnClose([Saw(s, {"poll"}) EXCEPT !.error = PICO_ERROR_TIMEOUT,
                                       !.errWrites = @ + 1], closeOk)

\* ---- tls_client_err ----
tls_client_err(s, closeOk) ==
  [tls_client_close(Saw(s, {"err"}), closeOk) EXCEPT !.error = PICO_ERROR_GENERIC,
                                                     !.errWrites = @ + 1]

\* A handler that acknowledges one byte less than it was given.
tls_client_recv_acks_short(s, present, len, taken, closeOk) ==
  IF ~present
    THEN IF taken
           THEN ReturnClose(
                  [Saw(s, {"peer_closed"}) EXCEPT !.nullRead = TRUE], closeOk)
           ELSE [Saw(s, {"peer_closed"}) EXCEPT !.nullRead = TRUE,
                                                !.cbRet = "ERR_OK",
                                                !.cst = "halfclosed"]
    ELSE [Saw(s, {"chunk"}) EXCEPT !.chunks = @ + 1,
                                   !.cbRet = "ERR_OK",
                                   !.rcvd = @ + len,
                                   !.acked = IF len > 0 THEN @ + len - 1 ELSE @,
                                   !.freed = @ + 1]

\* ---- tls_client_recv ----
\* present is p != NULL and len is p->tot_len of a present chunk.  The buffer
\* "char buf[p->tot_len + 1]" is declared before the test "if (!p)", so the
\* absent chunk is read through a null pointer: undefined.  taken says which
\* outcome the build produces: the read yields some value (address 8 is
\* readable on the target) and the test is then taken (TRUE), or the test,
\* which follows a dereference of p, is dropped by the optimiser and the
\* handler returns without closing (FALSE).
tls_client_recv(s, present, len, taken, closeOk) ==
  IF ~present
    THEN IF taken
           THEN ReturnClose(
                  [Saw(s, {"peer_closed"}) EXCEPT !.nullRead = TRUE], closeOk)
           ELSE [Saw(s, {"peer_closed"}) EXCEPT !.nullRead = TRUE,
                                                !.cbRet = "ERR_OK",
                                                !.cst = "halfclosed"]
    ELSE [Saw(s, {"chunk"}) EXCEPT !.chunks = @ + 1,
                                   !.cbRet = "ERR_OK",
                                   !.rcvd = @ + len,
                                   !.acked = IF len > 0 THEN @ + len ELSE @,
                                   !.freed = @ + 1]

\* ---- tls_client_connect_to_server_ip ----
\* altcp_connect starts a connect only on a connection object; connOk is its
\* result when there is one.
tls_client_connect_to_server_ip(s, connOk, closeOk) ==
  IF s.pcb # NULL
    THEN IF connOk
           THEN [s EXCEPT !.connects = @ + 1, !.connectCalls = @ + 1,
                          !.cst = "connecting"]
           ELSE tls_client_close(
                  [Saw(s, {"connect_init_failed"}) EXCEPT !.connects = @ + 1,
                                                          !.connectCalls = @ + 1],
                  closeOk)
    ELSE tls_client_close(
           [Saw(s, {"connect_init_failed"}) EXCEPT !.connectCalls = @ + 1], closeOk)

\* ---- tls_client_dns_found: found is ipaddr != NULL ----
tls_client_dns_found(s, found, connOk, closeOk) ==
  IF found
    THEN tls_client_connect_to_server_ip(
           [Saw(s, {"resolved"}) EXCEPT !.dns = "done"], connOk, closeOk)
    ELSE tls_client_close(
           [Saw(s, {"resolve_failed"}) EXCEPT !.dns = "done"], closeOk)

\* ---- tls_client_open ----
\* pcbOk is altcp_tls_new returning a connection object; dnsRes is the result
\* of dns_gethostbyname.  On an immediate resolver error the code calls
\* tls_client_close(state->pcb): the argument is the connection object, not
\* the handle, so no field of the handle is written.
DnsResults == {"ERR_OK", "ERR_INPROGRESS", "ERR_ARG"}
Outcomes == {"intact", "fault"}

\* An open that forgets altcp_poll: no idle-poll callback is registered.
tls_client_open_without_poll(s, pcbOk, dnsRes, connOk, closeOk) ==
  IF ~pcbOk
    THEN Saw(s, {"no_pcb"})
    ELSE LET s1 == [s EXCEPT !.pcb = PCB, !.cst = "new",
                              !.cbs = Slots \ {"poll"}]
         IN  CASE dnsRes = "ERR_OK" ->
                    tls_client_connect_to_server_ip(
                      Saw(s1, {"resolved", "cache_hit"}), connOk, closeOk)
               [] dnsRes = "ERR_INPROGRESS" ->
                    [s1 EXCEPT !.dns = "pending"]
               [] OTHER ->
                    [Saw(s1, {"resolve_error"}) EXCEPT !.wrongClose = TRUE]

tls_client_open(s, pcbOk, dnsRes, connOk, closeOk) ==
  IF ~pcbOk
    THEN Saw(s, {"no_pcb"})
    ELSE LET s1 == [s EXCEPT !.pcb = PCB, !.cst = "new", !.cbs = Slots,
                              !.pollTicks = (s.timeout * 2) % 256]
         IN  CASE dnsRes = "ERR_OK" ->
                    tls_client_connect_to_server_ip(
                      Saw(s1, {"resolved", "cache_hit"}), connOk, closeOk)
               [] dnsRes = "ERR_INPROGRESS" ->
                    [s1 EXCEPT !.dns = "pending"]
               [] OTHER ->
                    [Saw(s1, {"resolve_error"}) EXCEPT !.wrongClose = TRUE]

\* An open that reports only the cache hit as success.
tls_client_open_returns_cache_hit_only(pcbOk, dnsRes) ==
  pcbOk /\ dnsRes = "ERR_OK"

tls_client_open_returns(pcbOk, dnsRes) ==
  pcbOk /\ dnsRes \in {"ERR_OK", "ERR_INPROGRESS"}


\* ---- run_tls_client_test, up to the return of tls_client_open ----
\* allocOk is calloc returning memory; cfgOk is altcp_tls_create_config_client
\* returning a configuration.  "int err = state->error" is read before the
\* handle is tested for null and before the attempt runs.
RunBegins(s, allocOk, pcbOk, dnsRes, connOk, closeOk) ==
  IF ~allocOk
    THEN [s EXCEPT !.alloc = "null", !.cfg = "live", !.result = "false"]
    ELSE LET s1 == [s EXCEPT !.alloc = "live", !.err = s.error, !.cfg = "live",
                              !.http_request = "TLS_CLIENT_HTTP_REQUEST",
                              !.timeout = TIMEOUT]
             s2 == tls_client_open(s1, pcbOk, dnsRes, connOk, closeOk)
         IN  IF tls_client_open_returns(pcbOk, dnsRes)
               THEN [s2 EXCEPT !.openRet = "true"]
               ELSE [s2 EXCEPT !.openRet = "false", !.result = "false"]

\* ---- run_tls_client_test, from the loop exit to the return ----
RunEnds(s) ==
  [s EXCEPT !.alloc = "freed", !.cfg = "freed",
            !.result = IF s.err = 0 THEN "true" ELSE "false"]

\* ---- init_client ----
\* cyw43_arch_init: a failure returns at once.
ArchInit(ok) ==
  /\ pc = "start"
  /\ pc' = IF ok THEN "loop" ELSE "done"
  /\ printed' = IF ok THEN printed ELSE printed \cup {"failed to initialise"}
  /\ UNCHANGED <<retries, linkFails, runCalls, cfgLive, att, memFault, lateCount, srv>>

\* A link failure that forgets "retries--".
LinkFailed_keeps_retries ==
  /\ pc = "loop"
  /\ retries > 0
  /\ linkFails <= RETRIES
  /\ linkFails' = linkFails + 1
  /\ printed' = printed \cup {"Failed to connect"}
  /\ UNCHANGED <<pc, retries, runCalls, cfgLive, att, memFault, lateCount, srv>>

\* cyw43_arch_wifi_connect_timeout_ms failed: retries--, continue.
LinkFailed ==
  /\ pc = "loop"
  /\ retries > 0
  /\ retries' = retries - 1
  /\ linkFails' = linkFails + 1
  /\ printed' = printed \cup {"Failed to connect"}
  /\ UNCHANGED <<pc, runCalls, cfgLive, att, memFault, lateCount, srv>>

\* A failed test that is reported but leaves retries as it was.
TestFailed_keeps_retries ==
  /\ pc' = "loop"
  /\ printed' = printed \cup {"Test failed."}
  /\ UNCHANGED retries

\* The else branch of "if (pass)": "Test failed." and retries--, then the
\* while loop tests retries again.
TestFailed ==
  /\ pc' = "loop"
  /\ printed' = printed \cup {"Test failed."}
  /\ retries' = retries - 1

\* The link is up and run_tls_client_test is called.  It returns false at once
\* when the handle is null or open returns false ("Test failed.", retries--),
\* else it waits in its loop.  ub is the outcome of the undefined steps, the
\* read of state->error through a null handle and the call
\* tls_client_close(state->pcb): the program goes on with the handle and the
\* connection object as they were, or it faults.
RunTest(allocOk, cfgOk, pcbOk, dnsRes, connOk, closeOk, ub) ==
  /\ pc = "loop"
  /\ retries > 0
  /\ runCalls < RETRIES
  /\ LET a == runCalls + 1
         s == RunBegins(att[a], allocOk, pcbOk, dnsRes, connOk, closeOk)
     IN  /\ runCalls' = a
         /\ memFault' = (memFault \/ ~allocOk)
         /\ IF ~cfgOk
              THEN \* assert(tls_config) fails
                   /\ pc' = "crashed"
                   /\ att' = [att EXCEPT ![a] = [@ EXCEPT !.alloc =
                                                   IF allocOk THEN "live" ELSE "null"]]
                   /\ UNCHANGED <<retries, printed, cfgLive>>
              ELSE /\ cfgLive' = cfgLive + 1
                   /\ IF (s.wrongClose \/ ~allocOk) /\ ub = "fault"
                        THEN \* the call does not return
                             /\ att' = [att EXCEPT ![a] = [s EXCEPT !.result = "none",
                                                                  !.openRet = "none"]]
                             /\ pc' = "crashed"
                             /\ UNCHANGED <<retries, printed>>
                        ELSE /\ att' = [att EXCEPT ![a] = s]
                             /\ IF s.result = "false"
                                  THEN TestFailed
                                  ELSE /\ pc' = "wait"
                                       /\ UNCHANGED <<retries, printed>>
  /\ UNCHANGED <<linkFails, lateCount, srv>>

\* A driver that leaves its loop without looking at complete.
LoopExit_ignores_complete ==
  /\ pc = "wait"
  /\ LET s == RunEnds(att[runCalls])
     IN  /\ att' = [att EXCEPT ![runCalls] = s]
         /\ IF s.result = "true"
              THEN /\ pc' = "exit"
                   /\ printed' = printed \cup {"Test passed."}
                   /\ UNCHANGED retries
              ELSE /\ pc' = "loop"
                   /\ printed' = printed \cup {"Test failed."}
                   /\ retries' = retries - 1
  /\ cfgLive' = cfgLive - 1
  /\ UNCHANGED <<linkFails, runCalls, memFault, lateCount, srv>>

\* The loop of run_tls_client_test observes complete, frees the handle and the
\* configuration and returns; init_client breaks on a pass.
LoopExit ==
  /\ pc = "wait"
  /\ att[runCalls].complete
  /\ LET s == RunEnds(att[runCalls])
     IN  /\ att' = [att EXCEPT ![runCalls] = s]
         /\ IF s.result = "true"
              THEN /\ pc' = "exit"
                   /\ printed' = printed \cup {"Test passed."}
                   /\ UNCHANGED retries
              ELSE TestFailed
  /\ cfgLive' = cfgLive - 1
  /\ UNCHANGED <<linkFails, runCalls, memFault, lateCount, srv>>

\* A report that tests "retries < 0" instead of "retries == 0".
Finish_reports_below_zero ==
  /\ \/ pc = "exit"
     \/ pc = "loop" /\ retries <= 0
  /\ pc' = "done"
  /\ printed' = IF retries < 0
                  THEN printed \cup {"Exceeded retry limit.", "All done..."}
                  ELSE printed \cup {"All done..."}
  /\ UNCHANGED <<retries, linkFails, runCalls, cfgLive, att, memFault, lateCount, srv>>

\* After the while loop: report, cyw43_arch_deinit, return.
Finish ==
  /\ \/ pc = "exit"
     \/ pc = "loop" /\ retries <= 0
  /\ pc' = "done"
  /\ printed' = IF retries = 0
                  THEN printed \cup {"Exceeded retry limit.", "All done..."}
                  ELSE printed \cup {"All done..."}
  /\ UNCHANGED <<retries, linkFails, runCalls, cfgLive, att, memFault, lateCount, srv>>

\* ---- the callbacks, delivered by the transport and the resolver ----
Running == pc \in {"loop", "wait", "exit"}

Deliver(a, s) ==
  /\ att' = [att EXCEPT ![a] = s]
  /\ UNCHANGED <<pc, retries, linkFails, runCalls, printed, cfgLive, memFault, lateCount, srv>>

OnConnected(a, status, writeOk, closeOk) ==
  /\ Running
  /\ att[a].cst = "connecting"
  /\ Deliver(a, tls_client_connected(att[a], status, writeOk, closeOk))

OnPoll(a, closeOk) ==
  /\ Running
  /\ att[a].cst \in Signalling
  /\ "poll" \in att[a].cbs
  /\ Deliver(a, tls_client_poll(att[a], closeOk))

OnErr(a, closeOk) ==
  /\ Running
  /\ att[a].cst \in Signalling \ {"new"}
  /\ "err" \in att[a].cbs
  /\ Deliver(a, tls_client_err(att[a], closeOk))

OnRecv(a, present, len, taken, closeOk) ==
  /\ Running
  /\ att[a].cst \in {"established", "closed"}
  /\ "recv" \in att[a].cbs
  /\ present => att[a].chunks < MaxChunks
  /\ Deliver(a, tls_client_recv(att[a], present, len, taken, closeOk))

\* The resolver's callback is not a slot of the connection object and
\* tls_client_close does not cancel it.  Delivered after the driver freed the
\* handle, it reads and writes freed memory: the program goes on or faults.
OnDnsFound(a, found, connOk, closeOk, ub) ==
  /\ Running
  /\ att[a].dns = "pending"
  /\ IF att[a].alloc = "freed"
       THEN /\ att' = [att EXCEPT ![a] = [@ EXCEPT !.dns = "done"]]
            /\ memFault' = TRUE
            /\ pc' = IF ub = "fault" THEN "crashed" ELSE pc
       ELSE /\ att' = [att EXCEPT ![a] =
                         tls_client_dns_found(att[a], found, connOk, closeOk)]
            /\ UNCHANGED <<memFault, pc>>
  /\ UNCHANGED <<retries, linkFails, runCalls, printed, cfgLive, lateCount, srv>>

\* ---- signals that arrive at a handle that is already closed ----
LateErr(a, closeOk) ==
  /\ Running
  /\ att[a].alloc = "live"
  /\ att[a].complete
  /\ lateCount < MaxLate
  /\ lateCount' = lateCount + 1
  /\ att' = [att EXCEPT ![a] = tls_client_err(att[a], closeOk)]
  /\ UNCHANGED <<pc, retries, linkFails, runCalls, printed, cfgLive, memFault, srv>>

LatePoll(a, closeOk) ==
  /\ Running
  /\ att[a].alloc = "live"
  /\ att[a].complete
  /\ lateCount < MaxLate
  /\ lateCount' = lateCount + 1
  /\ att' = [att EXCEPT ![a] = tls_client_poll(att[a], closeOk)]
  /\ UNCHANGED <<pc, retries, linkFails, runCalls, printed, cfgLive, memFault, srv>>

Next ==
  \/ \E ok \in BOOLEAN : ArchInit(ok)
  \/ LinkFailed
  \/ \E allocOk, cfgOk, pcbOk, connOk, closeOk \in BOOLEAN :
       \E dnsRes \in DnsResults : \E ub \in Outcomes :
         RunTest(allocOk, cfgOk, pcbOk, dnsRes, connOk, closeOk, ub)
  \/ LoopExit
  \/ Finish
  \/ \E a \in Attempts : \E status, writeOk, closeOk \in BOOLEAN :
       OnConnected(a, status, writeOk, closeOk)
  \/ \E a \in Attempts : \E closeOk \in BOOLEAN : OnPoll(a, closeOk)
  \/ \E a \in Attempts : \E closeOk \in BOOLEAN : OnErr(a, closeOk)
  \/ \E a \in Attempts : \E len \in 0..MaxLen : \E present, taken, closeOk \in BOOLEAN :
       OnRecv(a, present, len, taken, closeOk)
  \/ \E a \in Attempts : \E found, connOk, closeOk \in BOOLEAN : \E ub \in Outcomes :
       OnDnsFound(a, found, connOk, closeOk, ub)

Spec == Init /\ [][Next]_vars

NextLate ==
  \/ Next
  \/ \E a \in Attempts : \E closeOk \in BOOLEAN : LateErr(a, closeOk)
  \/ \E a \in Attempts : \E closeOk \in BOOLEAN : LatePoll(a, closeOk)

SpecLate == Init /\ [][NextLate]_vars

\* ---- the client under its scheduling ----
\* init_client and the loop of run_tls_client_test are ordinary sequential
\* code: a step that can be taken is taken (cyw43_arch_wifi_connect_timeout_ms
\* returns within its 30 s, sleep_ms(1000) returns).  The idle-poll timer of a
\* connection object fires for as long as tls_client_poll is registered.
Driver ==
  \/ \E ok \in BOOLEAN : ArchInit(ok)
  \/ LinkFailed
  \/ \E allocOk, cfgOk, pcbOk, connOk, closeOk \in BOOLEAN :
       \E dnsRes \in DnsResults : \E ub \in Outcomes :
         RunTest(allocOk, cfgOk, pcbOk, dnsRes, connOk, closeOk, ub)
  \/ LoopExit
  \/ Finish

PollTimer(a) == \E closeOk \in BOOLEAN : OnPoll(a, closeOk)

SpecLive ==
  /\ Init
  /\ [][Next]_vars
  /\ WF_vars(Driver)
  /\ \A a \in Attempts : WF_vars(PollTimer(a))

\* ---- the server loop: init_server (server.c), run_server with hooks ----
Setups == {"ok", "ctx", "cert", "ifaddrs", "wlan0", "bind", "listen"}

\* From the top of while (1) to the call of accept.  stage names the step
\* that fails: create_context and configure_context abort, the others exit;
\* only a failing bind closes the listening socket first.
ServerSetup(stage) ==
  /\ srv.mode = "server"
  /\ srv.spc = "top"
  /\ srv.iter < MaxIter
  /\ srv' = [srv EXCEPT
       !.iter = @ + 1,
       !.ctx  = IF stage = "ctx" THEN @ ELSE @ + 1,
       !.sock = IF stage \in {"ok", "listen"} THEN @ + 1 ELSE @,
       !.spc  = IF stage = "ok" THEN "accepting" ELSE "exited"]
  /\ UNCHANGED clientVars

\* accept returns; on success SSL_new and SSL_set_fd, then SSL_accept.
Accepted(ok) ==
  /\ srv.mode = "server"
  /\ srv.spc = "accepting"
  /\ srv' = IF ok
              THEN [srv EXCEPT !.accepts = @ + 1, !.client = @ + 1,
                               !.ssl = @ + 1, !.spc = "handshaking"]
              ELSE [srv EXCEPT !.accepts = @ + 1, !.spc = "exited"]
  /\ UNCHANGED clientVars

\* SSL_accept returns; on success handle_ssl_connection calls SSL_read.
Handshake(ok) ==
  /\ srv.mode = "server"
  /\ srv.spc = "handshaking"
  /\ srv' = IF ok
              THEN [srv EXCEPT !.reads = @ + 1, !.asked = BUFFER_SIZE - 1,
                               !.out = Gone("none"), !.spc = "reading"]
              ELSE [srv EXCEPT !.spc = "exited"]
  /\ UNCHANGED clientVars

\* A close_ssl_connection that forgets close(client_fd).
close_ssl_connection_keeps_client(v) ==
  [v EXCEPT !.ssl = @ - 1, !.ctx = @ - 1]

close_ssl_connection(v) ==
  [v EXCEPT !.ssl = @ - 1, !.ctx = @ - 1, !.client = @ - 1]

\* SSL_read returns: the rest of handle_ssl_connection, close_ssl_connection
\* and close(server_fd).  res is "data" (the bytes of data were read),
\* "closed" (0) or "error" (-1).  After a failed read the buffer holds what it
\* held before, which in the first iteration is anything.
ReadResults == {"data", "closed", "error"}

Handle(res, data, ub) ==
  /\ srv.mode = "server"
  /\ srv.spc = "reading"
  /\ data \in Requests
  /\ (res # "data" /\ srv.reads > 1) => data = srv.buffer
  /\ LET r == CASE res = "data" -> Len(data) [] res = "closed" -> 0 [] OTHER -> 0 - 1
         out == handle_ssl_connection(r, data, srv.func_ptrs, ub)
         v == [srv EXCEPT !.got = r, !.buffer = data, !.out = out]
     IN  srv' = CASE out.end = "return" ->
                       [close_ssl_connection(v) EXCEPT !.sock = @ - 1, !.spc = "top"]
                  [] out.end = "exit" -> [v EXCEPT !.spc = "exited"]
                  [] OTHER -> [v EXCEPT !.spc = "crashed"]
  /\ UNCHANGED clientVars

NextServer ==
  \/ \E stage \in Setups : ServerSetup(stage)
  \/ \E ok \in BOOLEAN : Accepted(ok)
  \/ \E ok \in BOOLEAN : Handshake(ok)
  \/ \E res \in ReadResults : \E data \in Requests : \E ub \in Outcomes :
       Handle(res, data, ub)

InitServer ==
  /\ ClientInit
  /\ \E f \in HookArrays : srv = [ServerIdle EXCEPT !.mode = "server", !.func_ptrs = f]

SpecServer == InitServer /\ [][NextServer]_vars

\* ---- url_decode on its own ----
Decode ==
  /\ srv.mode = "decode"
  /\ ~srv.decDone
  /\ srv' = [srv EXCEPT !.decOut = url_decode(srv.decIn), !.decDone = TRUE]
  /\ UNCHANGED clientVars

InitDecode ==
  /\ ClientInit
  /\ \E x \in DecodeInputs : srv = [ServerIdle EXCEPT !.mode = "decode", !.decIn = x]

SpecDecode == InitDecode /\ [][Decode]_vars

\* ---- url_decode, one iteration of "while (*str)" at a time ----
\* The buffer is indexed from 0 as in C.
At(b, i) == b[i + 1]
Put(b, i, c) == [b EXCEPT ![i + 1] = c]
Max(a, b) == IF a >= b THEN a ELSE b

\* An iteration that decodes an escape but leaves out "str += 2".
DecodeStep_forgets_skip ==
  /\ srv.mode = "inplace"
  /\ ~srv.decDone
  /\ LET b == srv.decBuf
         str == srv.decStr
         pos == srv.decPos
     IN  /\ At(b, str) # 0
         /\ IF At(b, str) = 37 /\ At(b, str + 1) # 0 /\ At(b, str + 2) # 0
              THEN srv' = [srv EXCEPT
                     !.decBuf = Put(b, pos, strtol16(At(b, str + 1), At(b, str + 2)) % 256),
                     !.decStr = str + 1,
                     !.decPos = pos + 1,
                     !.decRead = Max(@, str + 2),
                     !.decEsc = @ + 1]
              ELSE srv' = [srv EXCEPT
                     !.decBuf = Put(b, pos, At(b, str)),
                     !.decStr = str + 1,
                     !.decPos = pos + 1,
                     !.decRead = Max(@, IF At(b, str) # 37 THEN str
                                        ELSE IF At(b, str + 1) = 0 THEN str + 1
                                        ELSE str + 2)]
  /\ UNCHANGED clientVars

\* One iteration: *str is not NUL.  The tests of *(str + 1) and *(str + 2)
\* are made left to right, so the byte after a NUL is not read.
DecodeStep ==
  /\ srv.mode = "inplace"
  /\ ~srv.decDone
  /\ LET b == srv.decBuf
         str == srv.decStr
         pos == srv.decPos
     IN  /\ At(b, str) # 0
         /\ IF At(b, str) = 37 /\ At(b, str + 1) # 0 /\ At(b, str + 2) # 0
              THEN srv' = [srv EXCEPT
                     !.decBuf = Put(b, pos, strtol16(At(b, str + 1), At(b, str + 2)) % 256),
                     !.decStr = str + 3,
                     !.decPos = pos + 1,
                     !.decRead = Max(@, str + 2),
                     !.decEsc = @ + 1]
              ELSE srv' = [srv EXCEPT
                     !.decBuf = Put(b, pos, At(b, str)),
                     !.decStr = str + 1,
                     !.decPos = pos + 1,
                     !.decRead = Max(@, IF At(b, str) # 37 THEN str
                                        ELSE IF At(b, str + 1) = 0 THEN str + 1
                                        ELSE str + 2)]
  /\ UNCHANGED clientVars

\* *str is NUL: the loop ends and "*pos = '\0'" is written.  decOut is every
\* byte written before it.
DecodeEnd ==
  /\ srv.mode = "inplace"
  /\ ~srv.decDone
  /\ At(srv.decBuf, srv.decStr) = 0
  /\ srv' = [srv EXCEPT !.decBuf = Put(@, srv.decPos, 0),
                        !.decOut = SubSeq(srv.decBuf, 1, srv.decPos),
                        !.decRead = Max(@, srv.decStr),
                        !.decDone = TRUE]
  /\ UNCHANGED clientVars

InitInPlace ==
  /\ ClientInit
  /\ \E x \in DecodeInputs :
       srv = [ServerIdle EXCEPT !.mode = "inplace", !.decIn = x,
                                !.decBuf = x \o <<0>>]

NextInPlace == DecodeStep \/ DecodeEnd

\* The loop is sequential code: an iteration that can run does run.
SpecInPlace == InitInPlace /\ [][NextInPlace]_vars /\ WF_vars(NextInPlace)

TypeOK ==
  /\ pc \in {"start", "loop", "wait", "exit", "done", "crashed"}
  /\ retries \in 0..RETRIES
  /\ runCalls \in 0..RETRIES
  /\ cfgLive \in 0..RETRIES
  /\ \A a \in Attempts :
       /\ att[a].pcb \in {NULL, PCB}
       /\ att[a].error \in {PICO_ERROR_NONE, PICO_ERROR_TIMEOUT, PICO_ERROR_GENERIC}
       /\ att[a].closeCalls \in 0..2
       /\ att[a].cbs \in {{}, Slots}
       /\ att[a].chunks \in 0..MaxChunks
       /\ att[a].acked \in 0..(MaxChunks * MaxLen)


\* ---------------------------------------------------------------------------
\* Properties
\* ---------------------------------------------------------------------------

HasHandle(a) == att[a].alloc \in {"live", "freed"}
Returned(a) == att[a].result # "none"

\* C1: for every attempt whose handle exists, once the attempt is over
\* (run_tls_client_test has returned) tls_client_close has been called exactly
\* once on the handle and the handle's pcb is null.
C1_CloseExactlyOnce ==
  \A a \in Attempts :
    (HasHandle(a) /\ Returned(a)) =>
      (att[a].closeCalls = 1 /\ att[a].pcb = NULL)

\* C2: an error or idle-poll signal delivered to a handle whose complete flag
\* is already true leaves the handle's error as it was and issues no further
\* altcp_close or altcp_abort.
C2_LateSignalIsNoOp ==
  [][lateCount' # lateCount =>
       \A a \in Attempts :
         /\ att'[a].error = att[a].error
         /\ att'[a].shutdowns = att[a].shutdowns
         /\ att'[a].aborts = att[a].aborts]_vars

\* C3: in every state the driver loop can observe, a handle whose complete
\* flag is true has a null pcb.
C3_CompleteImpliesNoConnection ==
  \A a \in Attempts : att[a].complete => att[a].pcb = NULL

\* The driver is in its loop and the current handle was closed by a callback
\* that shut its connection object down.
C3_Witness ==
  /\ pc = "wait"
  /\ att[runCalls].complete
  /\ att[runCalls].shutdowns = 1
  /\ att[runCalls].pcb = NULL

C5_ResultReflectsError ==
  \A a \in Attempts :
    att[a].alloc = "freed" =>
      (att[a].result = "true" <=> att[a].error = PICO_ERROR_NONE)

\* Scenario A: address resolved, connected, request written, one or more
\* chunks received, then the peer closed; nothing else was signalled.
ScenarioA(a) ==
  att[a].sigs \ {"cache_hit"} =
    {"resolved", "connected", "written", "chunk", "peer_closed"}

\* C6: in scenario A the attempt is complete with no error and
\* run_tls_client_test returns success.
C6_ScenarioA ==
  \A a \in Attempts :
    ScenarioA(a) =>
      /\ att[a].complete
      /\ att[a].error = PICO_ERROR_NONE
      /\ att[a].result \in {"none", "true"}

\* Scenario B: the resolver has not delivered a result and the idle-poll fired.
ScenarioB(a) == att[a].sigs = {"poll"} /\ att[a].dns = "pending"

\* C7: in scenario B the handle is closed with the timed-out error and
\* run_tls_client_test reports failure.
C7_ScenarioB ==
  \A a \in Attempts :
    ScenarioB(a) =>
      /\ att[a].complete
      /\ att[a].error = PICO_ERROR_TIMEOUT
      /\ att[a].result \in {"none", "false"}

\* Scenario C: the resolver's callback reported failure.
ScenarioC(a) == att[a].sigs = {"resolve_failed"}

\* C8: in scenario C the handle is closed with an error recorded, no connect
\* was issued, and run_tls_client_test reports failure.
C8_ScenarioC ==
  \A a \in Attempts :
    ScenarioC(a) =>
      /\ att[a].complete
      /\ att[a].error # PICO_ERROR_NONE
      /\ att[a].connects = 0
      /\ att[a].result \in {"none", "false"}

\* Scenario D: the received signal came without a chunk, and neither the
\* idle-poll nor the error signal fired.
ScenarioD(a) ==
  "peer_closed" \in att[a].sigs /\ att[a].sigs \cap {"poll", "err"} = {}

\* C9: in scenario D the handle is complete, its pcb is null, its error is the
\* no-error value, and no field of the absent chunk was read.
C9_ScenarioD ==
  \A a \in Attempts :
    ScenarioD(a) =>
      /\ att[a].complete
      /\ att[a].pcb = NULL
      /\ att[a].error = PICO_ERROR_NONE
      /\ ~att[a].nullRead

\* C10: when link establishment has failed RETRIES times, init_client has
\* never called run_tls_client_test, cannot loop again, and reports
\* "Exceeded retry limit." when it returns.
C10_ScenarioE ==
  linkFails = RETRIES =>
    /\ runCalls = 0
    /\ retries = 0
    /\ pc = "done" => "Exceeded retry limit." \in printed

C10_Witness ==
  /\ pc = "done"
  /\ linkFails = RETRIES
  /\ "Exceeded retry limit." \in printed
  /\ runCalls = 0

\* C11: the handle's memory is released only by the driver, in the step in
\* which run_tls_client_test leaves its loop having seen complete true: no
\* callback frees a handle, and no handle is freed while its complete is
\* false.
C11_FreedOnlyByDriver ==
  [][\A a \in Attempts :
       (att'[a].alloc = "freed" /\ att[a].alloc # "freed") =>
         /\ pc = "wait" /\ pc' \in {"exit", "loop"}
         /\ a = runCalls
         /\ att[a].alloc = "live"
         /\ att[a].complete]_vars

C11_Witness ==
  \E a \in Attempts :
    /\ att[a].alloc = "freed"
    /\ att[a].complete
    /\ att[a].closeCalls = 1
    /\ "connected" \in att[a].sigs

\* C12: when a call of run_tls_client_test has returned, the configuration
\* and the handle it created have been released, on every exit path; between
\* attempts no configuration and no handle is left unreleased.
C12_AllReleased ==
  /\ \A a \in Attempts :
       Returned(a) => (att[a].cfg # "live" /\ att[a].alloc # "live")
  /\ pc \in {"loop", "exit", "done"} => cfgLive = 0

\* C13: the driver frees the transport configuration only when the handle of
\* that call is closed: at altcp_tls_free_config the handle's complete is
\* true, tls_client_close has run on it, its pcb is null and its connection
\* object is no longer live.
C13_ConfigOutlivesConnection ==
  [][\A a \in Attempts :
       (att'[a].cfg = "freed" /\ att[a].cfg = "live") =>
         /\ att[a].complete
         /\ att[a].closeCalls >= 1
         /\ att[a].pcb = NULL
         /\ att[a].cst \notin LiveConn]_vars

C13_Witness ==
  \E a \in Attempts :
    /\ att[a].cfg = "freed"
    /\ att[a].pcb = NULL
    /\ att[a].shutdowns >= 1
    /\ cfgLive = 0

\* C14: an attempt whose open returned true (the driver waits in its loop)
\* eventually has complete true and the driver leaves the loop, freeing the
\* handle; once an idle-poll signal has been delivered complete is true; and
\* the idle-poll is registered with an interval of 2 x state->timeout.
C14_AttemptCompletes ==
  /\ [](\A a \in Attempts :
          /\ "poll" \in att[a].sigs => att[a].complete
          /\ "poll" \in att[a].cbs => att[a].pollTicks = 2 * att[a].timeout)
  /\ \A a \in Attempts :
       (pc = "wait" /\ runCalls = a) ~>
         (att[a].complete /\ att[a].alloc = "freed" /\ pc # "wait")

C14_Witness ==
  \E a \in Attempts :
    /\ att[a].sigs = {"poll"}
    /\ att[a].pollTicks = 2 * TIMEOUT
    /\ att[a].alloc = "freed"
    /\ pc = "exit"

\* C15: the request the client hands to altcp_write is the request line
\* "POST / HTTP/1.1", the headers Host, Connection: close, Content-Type and
\* Content-Length, a blank line and the body; the number in the
\* Content-Length header is the byte length of the body, 13 for
\* hello%20world.
HeaderEnd(req) == StrStr(req, CRLF \o CRLF)
BodyOf(req) == Drop(req, HeaderEnd(req) + 3)
RECURSIVE Lines(_)
Lines(t) ==
  LET e == StrStr(t, CRLF)
  IN  IF e = 0 THEN <<t>> ELSE <<Take(t, e - 1)>> \o Lines(Drop(t, e + 1))
ContentLengthOf(req) ==
  atoi(Drop(req, StrStr(req, TOKEN_CONTENT_LENGTH) + Len(TOKEN_CONTENT_LENGTH) - 1))

C15_ContentLengthIsBodyLength ==
  \A a \in Attempts :
    att[a].writes >= 1 =>
      LET req == IF att[a].sent = <<>> THEN Deref(att[a].http_request)
                                       ELSE att[a].sent
          head == Lines(Take(req, HeaderEnd(req) - 1))
      IN  /\ HeaderEnd(req) > 0
          /\ Len(head) = 5
          /\ head[1] = REQUEST_LINE
          /\ head[2] = HEADER_HOST
          /\ head[3] = HEADER_CONNECTION
          /\ head[4] = HEADER_CONTENT_TYPE
          /\ StartsWith(head[5], TOKEN_CONTENT_LENGTH)
          /\ BodyOf(req) = MESSAGE
          /\ Len(BodyOf(req)) > 0
          /\ ContentLengthOf(req) = Len(BodyOf(req))
          /\ ContentLengthOf(req) = 13

C15_Witness ==
  \E a \in Attempts :
    /\ "written" \in att[a].sigs
    /\ att[a].sent = TLS_CLIENT_HTTP_REQUEST
    /\ Len(att[a].sent) > Len(MESSAGE)

\* C16: url_decode replaces every '%' followed by two hexadecimal digits with
\* the byte of that value and copies every other character unchanged and in
\* order; decoding hello%20world yields hello world.
RECURSIVE PercentDecoded(_, _)
PercentDecoded(str, i) ==
  IF i > Len(str) THEN <<>>
  ELSE IF /\ str[i] = 37
          /\ i + 2 <= Len(str)
          /\ IsXDigit(str[i + 1])
          /\ IsXDigit(str[i + 2])
    THEN <<16 * XVal(str[i + 1]) + XVal(str[i + 2])>> \o PercentDecoded(str, i + 3)
    ELSE <<str[i]>> \o PercentDecoded(str, i + 1)

HELLO_WORLD == <<104, 101, 108, 108, 111, 32, 119, 111, 114, 108, 100>>   \* "hello world"

C16_UrlDecode ==
  (srv.mode = "decode" /\ srv.decDone) =>
    /\ srv.decOut = PercentDecoded(srv.decIn, 1)
    /\ srv.decIn = MESSAGE => srv.decOut = HELLO_WORLD

\* C17: for every request the server has read from an accepted connection and
\* handled up to the close of the connection, the 200 OK response has been
\* written exactly once.
IsResponse(x) == x = RESPONSE
IsHook(x) == x # RESPONSE

C17_ResponseExactlyOnce ==
  (srv.mode = "server" /\ srv.out.end = "return" /\ srv.got > 0) =>
    Len(SelectSeq(srv.out.log, IsResponse)) = 1

\* C18: for a POST whose body was parsed (a Content-Length header and the
\* blank line are there) every function of the hook array has been called
\* once, in array order, before the response; for any other request no hook
\* has been called.
ParsedPost(b) ==
  /\ StartsWith(b, TOKEN_POST)
  /\ StrStr(b, TOKEN_CONTENT_LENGTH) # 0
  /\ StrStr(b, CRLF \o CRLF) # 0

C18_HooksOncePerParsedPost ==
  (srv.mode = "server" /\ srv.out.end # "none" /\ srv.got > 0) =>
    LET b == CStr(srv.buffer)
        hooks == SelectSeq(srv.out.log, IsHook)
    IN  /\ (ParsedPost(b) /\ srv.out.end = "return") =>
             srv.out.log = srv.func_ptrs \o <<RESPONSE>>
        /\ ~ParsedPost(b) => hooks = <<>>

\* C19: the server loop has at most one client connection open; when it calls
\* accept, the SSL object, the context, the client socket and the listening
\* socket of every earlier iteration have been released; an iteration that
\* has come round has done exactly one accept and one SSL_read, and a read
\* asks for at most BUFFER_SIZE - 1 bytes.
C19_OneConnectionAtATime ==
  srv.mode = "server" =>
    /\ srv.client <= 1
    /\ srv.ssl <= 1
    /\ srv.accepts <= srv.iter
    /\ srv.reads <= srv.accepts
    /\ srv.asked <= BUFFER_SIZE - 1
    /\ srv.got <= srv.asked
    /\ srv.spc = "accepting" =>
         /\ srv.client = 0 /\ srv.ssl = 0 /\ srv.ctx = 1 /\ srv.sock = 1
         /\ srv.accepts = srv.iter - 1 /\ srv.reads = srv.iter - 1
    /\ srv.spc = "top" =>
         /\ srv.client = 0 /\ srv.ssl = 0 /\ srv.ctx = 0 /\ srv.sock = 0
         /\ srv.accepts = srv.iter /\ srv.reads = srv.iter

C19_Witness ==
  /\ srv.mode = "server"
  /\ srv.spc = "accepting"
  /\ srv.iter = 2
  /\ srv.accepts = 1
  /\ srv.reads = 1
  /\ srv.got > 0

Active(a) == att[a].cst \in LiveConn /\ att[a].cbs # {}

C21_OneActiveHandle ==
  Cardinality({a \in Attempts : Active(a)}) <= 1

\* C22: once tls_client_close has begun on a handle (complete is true), no
\* further chunk is handled for it: nothing more is received, acknowledged
\* or freed, and the received-data slot is no longer registered.
C22_NoChunkAfterClose ==
  /\ [](\A a \in Attempts : att[a].complete => "recv" \notin att[a].cbs)
  /\ [][\A a \in Attempts :
          att[a].complete =>
            /\ att'[a].chunks = att[a].chunks
            /\ att'[a].rcvd = att[a].rcvd
            /\ att'[a].acked = att[a].acked
            /\ att'[a].freed = att[a].freed]_vars

C22_Witness ==
  \E a \in Attempts :
    /\ att[a].complete
    /\ att[a].chunks >= 1
    /\ att[a].acked >= 1
    /\ att[a].cst = "closed"

\* C23: when tls_client_init returns null, run_tls_client_test returns false
\* without calling tls_client_open and without reading or writing a field
\* through the null handle.
C23_AllocationFailure ==
  \A a \in Attempts :
    att[a].alloc = "null" =>
      /\ att[a].openRet = "none"
      /\ att[a].cst = "none"
      /\ ~memFault
      /\ pc # "crashed"

\* C24: when altcp_tls_new returns no connection object, tls_client_open
\* returns false and has called tls_client_close on the handle: complete is
\* true and pcb is null.
C24_NoConnectionObject ==
  \A a \in Attempts :
    "no_pcb" \in att[a].sigs =>
      /\ att[a].openRet = "false"
      /\ att[a].closeCalls >= 1
      /\ att[a].complete
      /\ att[a].pcb = NULL

\* C25: with a connection object allocated, tls_client_open returns true
\* exactly when dns_gethostbyname answered from the cache or is in progress,
\* and false exactly when it reported an error at once; a failed
\* altcp_connect after a cache hit does not change the return value.
CacheHit(a) == "cache_hit" \in att[a].sigs
InProgress(a) == att[a].dns # "none"
ResolveError(a) == "resolve_error" \in att[a].sigs

C26_ResolverErrorCloses ==
  \A a \in Attempts :
    (ResolveError(a) /\ att[a].openRet = "false") =>
      /\ att[a].shutdowns >= 1
      /\ att[a].cbs = {}
      /\ att[a].cst \notin LiveConn
      /\ att[a].pcb = NULL
      /\ att[a].complete

\* C27: after a connected signal with a failure status, or after a failed
\* altcp_write, the handle is closed and its error is not the no-error value;
\* otherwise the whole request has been written in one call and the handle
\* stays established, complete false and pcb non-null.
C27_OnConnected ==
  /\ [](\A a \in Attempts :
          (att[a].complete /\ att[a].sigs \cap {"connect_failed", "write_failed"} # {}) =>
            (att[a].pcb = NULL /\ att[a].error # PICO_ERROR_NONE))
  /\ [][\A a \in Attempts :
          ("written" \in att'[a].sigs /\ "written" \notin att[a].sigs) =>
            /\ att'[a].writes = 1
            /\ att'[a].sent = TLS_CLIENT_HTTP_REQUEST
            /\ att'[a].cst = "established"
            /\ ~att'[a].complete
            /\ att'[a].pcb # NULL]_vars

\* C28: when altcp_connect itself fails (after a cache hit inside
\* tls_client_open, or in tls_client_dns_found), the handle is closed with
\* the failure recorded in its error, and run_tls_client_test returns false
\* for the attempt.
C28_ConnectInitFailure ==
  \A a \in Attempts :
    ("connect_init_failed" \in att[a].sigs /\ att[a].connects >= 1) =>
      /\ att[a].complete
      /\ att[a].error # PICO_ERROR_NONE
      /\ Returned(a) => att[a].result = "false"

\* C29: a non-null chunk of length n is acknowledged with exactly n bytes
\* (nothing when n is 0) and freed exactly once, and complete, error, pcb and
\* the connection's state stay as they were; so the bytes acknowledged are
\* always the bytes received.
C29_ChunkAcknowledged ==
  /\ [](\A a \in Attempts :
          /\ att[a].acked = att[a].rcvd
          /\ att[a].freed = att[a].chunks)
  /\ [][\A a \in Attempts :
          att'[a].chunks # att[a].chunks =>
            /\ att'[a].chunks = att[a].chunks + 1
            /\ att'[a].freed = att[a].freed + 1
            /\ att'[a].acked - att[a].acked = att'[a].rcvd - att[a].rcvd
            /\ att'[a].complete = att[a].complete
            /\ att'[a].error = att[a].error
            /\ att'[a].pcb = att[a].pcb
            /\ att'[a].cst = "established"
            /\ att[a].cst = "established"]_vars

C29_Witness ==
  \E a \in Attempts :
    /\ att[a].chunks = 2
    /\ att[a].freed = 2
    /\ att[a].rcvd \in {1, 2}
    /\ att[a].acked = att[a].rcvd
    /\ att[a].cst = "established"

\* C30: in tls_client_close with a connection, complete is set first, then
\* the four slots are unregistered, then the shutdown is requested, and pcb
\* is nulled last; no slot is registered when the shutdown is requested, so
\* no callback can reach the handle from then on.
CloseOrder(aborted) ==
  <<"complete", "arg", "poll", "recv", "err", "shutdown">> \o
  (IF aborted THEN <<"abort">> ELSE <<>>) \o <<"null">>

C30_CloseOrder ==
  \A a \in Attempts :
    att[a].shutdowns >= 1 =>
      LET full == CloseOrder(att[a].aborts >= 1)
      IN  /\ Len(att[a].order) >= Len(full)
          /\ SubSeq(att[a].order, 1, Len(full)) = full
          /\ \A i \in (Len(full) + 1)..Len(att[a].order) : att[a].order[i] = "complete"
          /\ att[a].slotsAtShutdown = {}
          /\ att[a].cbs = {}
          /\ att[a].pcb = NULL
          /\ att[a].complete

C30_Witness ==
  \E a \in Attempts :
    /\ att[a].order = CloseOrder(TRUE)
    /\ att[a].aborts = 1
    /\ att[a].cst = "aborted"
    /\ att[a].pcb = NULL

\* C31: tls_client_close returns ERR_ABRT exactly when altcp_close failed, and
\* then the connection was aborted once; otherwise it returns ERR_OK.  A
\* connection object that was shut down is released either by the successful
\* altcp_close or by the abort, never both and never twice, and the connected,
\* idle-poll and received handlers hand close's result back to the transport.
ClosingSignals == {"connect_failed", "write_failed", "poll", "peer_closed"}

C32_SecondCloseIsNoOp ==
  [][\A a \in Attempts :
       (att[a].closeCalls >= 1 /\ att'[a].closeCalls # att[a].closeCalls) =>
         /\ att[a].complete /\ att'[a].complete
         /\ att[a].pcb = NULL /\ att'[a].pcb = NULL
         /\ att'[a].error = att[a].error
         /\ att'[a].order = Append(att[a].order, "complete")
         /\ att'[a].cbs = att[a].cbs
         /\ att'[a].shutdowns = att[a].shutdowns
         /\ att'[a].aborts = att[a].aborts
         /\ att'[a].cst = att[a].cst
         /\ att'[a].closeRet = "ERR_OK"]_vars

C32_Witness ==
  \E a \in Attempts :
    /\ att[a].closeCalls = 2
    /\ att[a].shutdowns = 1
    /\ att[a].aborts = 1
    /\ att[a].closeRet = "ERR_OK"
    /\ att[a].error = PICO_ERROR_TIMEOUT

\* C33: complete goes from false to true once and never back, and after it
\* is true the handle's pcb stays null and no resolve, connect or write is
\* issued for the handle.
C33_ClosedIsTerminal ==
  [][\A a \in Attempts :
       att[a].complete =>
         /\ att'[a].complete
         /\ att'[a].pcb = NULL
         /\ att'[a].dns = "pending" => att[a].dns = "pending"
         /\ att'[a].connectCalls = att[a].connectCalls
         /\ att'[a].writes = att[a].writes]_vars

\* C34: altcp_connect is called at most once and only once the resolver has
\* produced an address; the request is written at most once, only in the
\* connected handler on a success status, and before any chunk is handled.
C34_StageOrder ==
  /\ [](\A a \in Attempts :
          /\ att[a].connectCalls <= 1
          /\ att[a].connectCalls = 1 => "resolved" \in att[a].sigs
          /\ att[a].writes <= 1
          /\ att[a].writes = 1 => "connected" \in att[a].sigs
          /\ (att[a].chunks >= 1 \/ "peer_closed" \in att[a].sigs) =>
               att[a].writes = 1)
  /\ [][\A a \in Attempts :
          /\ att'[a].writes # att[a].writes =>
               /\ "connected" \in att'[a].sigs \ att[a].sigs
               /\ att[a].chunks = 0 /\ att'[a].chunks = 0
               /\ att[a].connectCalls = 1
          /\ att'[a].connectCalls # att[a].connectCalls =>
               "resolved" \in att'[a].sigs \ att[a].sigs]_vars

C34_Witness ==
  \E a \in Attempts :
    /\ att[a].connectCalls = 1
    /\ "cache_hit" \notin att[a].sigs
    /\ att[a].writes = 1
    /\ att[a].chunks = 2

\* C35: once tls_client_close has completed for a handle, no callback of the
\* attempt touches the handle or its connection: no signal is handled, close
\* is not called again, the resolver's result is not taken and altcp_connect
\* is not called; and a resolver result that arrives after the driver freed
\* the handle does not read the freed memory.
C35_NoCallbackAfterClose ==
  [][\A a \in Attempts :
       att[a].complete =>
         /\ att'[a].sigs = att[a].sigs
         /\ att'[a].closeCalls = att[a].closeCalls
         /\ att'[a].dns = att[a].dns
         /\ att'[a].connectCalls = att[a].connectCalls
         /\ att[a].alloc = "freed" => memFault' = memFault]_vars

\* C36 as claimed: a failure reported by run_tls_client_test prints
\* "Test failed." but leaves the retry counter as it was, and no further link
\* establishment or attempt follows it.
FailedNow(a) == att'[a].result = "false" /\ att[a].result # "false"

C36_RetryOnlyOnLinkFailure ==
  [][/\ \A a \in Attempts :
          FailedNow(a) => ("Test failed." \in printed' /\ retries' = retries)
     /\ (\E a \in Attempts : att[a].result = "false") =>
          (runCalls' = runCalls /\ linkFails' = linkFails)]_vars

\* C36 as the code has it: a failure reported by run_tls_client_test prints
\* "Test failed." and decrements the retry counter, and the loop goes round
\* again while retries is above zero; the counter is decremented by one only,
\* and only by a link failure or a failed test.
C36_FailedTestIsRetried ==
  /\ [][\A a \in Attempts :
          FailedNow(a) =>
            /\ "Test failed." \in printed'
            /\ retries' = retries - 1
            /\ pc' = "loop"]_vars
  /\ [][retries' # retries =>
          /\ retries' = retries - 1
          /\ \/ linkFails' = linkFails + 1
             \/ \E a \in Attempts : FailedNow(a)]_vars
  /\ [](retries = RETRIES - linkFails
                    - Cardinality({a \in Attempts : att[a].result = "false"}))

C36_Witness ==
  /\ runCalls = 2
  /\ att[1].result = "false"
  /\ att[2].result = "none"
  /\ linkFails = 0
  /\ retries = RETRIES - 1
  /\ "Test failed." \in printed

\* C37: when SSL_read returns 0 or a negative value handle_ssl_connection
\* takes the error exit before it uses the value as an index, and whenever
\* the terminator of buffer is written its index is within 0..BUFFER_SIZE-1.
C37_ReadFailureExits ==
  (srv.mode = "server" /\ srv.out.end # "none") =>
    /\ srv.got <= 0 => (srv.out.end = "exit" /\ srv.out.term = 0 - 1)
    /\ srv.out.term # 0 - 1 => srv.out.term \in 0..(BUFFER_SIZE - 1)

\* C38: for every Content-Length n parsed from a request, every index written
\* into message by the copy (0 to n - 1) and by the terminator (n) is within
\* 0..MESSAGE_SIZE-1.
C38_CopyWithinMessage ==
  (srv.mode = "server" /\ srv.out.end # "none") =>
    /\ srv.out.copied > 0 => srv.out.copied - 1 \in 0..(MESSAGE_SIZE - 1)
    /\ srv.out.msgTerm # 0 - 1 => srv.out.msgTerm \in 0..(MESSAGE_SIZE - 1)

\* C39: for a POST with a Content-Length header and no blank line in the
\* bytes received, handle_ssl_connection skips the body: post_data_start is
\* not used, nothing is copied or decoded, no hook is called and the call
\* returns.
UnseparatedPost(b) ==
  /\ StartsWith(b, TOKEN_POST)
  /\ StrStr(b, TOKEN_CONTENT_LENGTH) # 0
  /\ StrStr(b, CRLF \o CRLF) = 0

C39_NoSeparatorSkipsBody ==
  (/\ srv.mode = "server" /\ srv.out.end # "none"
   /\ srv.got \in 1..(BUFFER_SIZE - 1)
   /\ UnseparatedPost(CStr(srv.buffer))) =>
    /\ srv.out.end = "return"
    /\ srv.out.body = "skipped"
    /\ srv.out.copied = 0 - 1
    /\ srv.out.msgTerm = 0 - 1
    /\ SelectSeq(srv.out.log, IsHook) = <<>>

\* C40: url_decode works in place safely and ends for every NUL-terminated
\* input: pos is never ahead of str, no byte after the input's terminator is
\* read, a '%' with fewer than two characters after it is copied as it is, and
\* the final terminator is written at an index that is at most the input's
\* length, namely the length less 2 for every escape decoded; that is the
\* length of the output unless an escape decoded to the zero byte.
RECURSIVE Escapes(_, _)
Escapes(str, i) ==
  IF i > Len(str) THEN 0
  ELSE IF str[i] = 37 /\ i + 2 <= Len(str) THEN 1 + Escapes(str, i + 3)
  ELSE Escapes(str, i + 1)

C40_UrlDecodeInPlace ==
  /\ [](srv.mode = "inplace" =>
          /\ srv.decPos <= srv.decStr
          /\ srv.decStr <= Len(srv.decIn)
          /\ srv.decRead <= Len(srv.decIn)
          /\ srv.decDone =>
               /\ At(srv.decIn \o <<0>>, srv.decStr) = 0
               /\ At(srv.decBuf, srv.decPos) = 0
               /\ srv.decPos <= Len(srv.decIn)
               /\ srv.decPos = Len(srv.decIn) - 2 * Escapes(srv.decIn, 1)
               /\ srv.decEsc = Escapes(srv.decIn, 1)
               /\ srv.decOut = url_decode(srv.decIn)
               /\ strlen(srv.decBuf) <= srv.decPos
               /\ (\A i \in 1..Len(srv.decOut) : srv.decOut[i] # 0) =>
                    strlen(srv.decBuf) = Len(srv.decIn) - 2 * Escapes(srv.decIn, 1))
  /\ [][(/\ srv.mode = "inplace" /\ ~srv.decDone
         /\ At(srv.decBuf, srv.decStr) = 37
         /\ \/ At(srv.decBuf, srv.decStr + 1) = 0
            \/ At(srv.decBuf, srv.decStr + 2) = 0) =>
          /\ At(srv'.decBuf, srv.decPos) = 37
          /\ srv'.decStr = srv.decStr + 1
          /\ srv'.decPos = srv.decPos + 1
          /\ srv'.decEsc = srv.decEsc]_vars
  /\ [][srv'.decStr > srv.decStr \/ srv'.decDone]_vars
  /\ <>srv.decDone

C40_Witness ==
  /\ srv.mode = "inplace"
  /\ srv.decDone
  /\ srv.decIn = MESSAGE
  /\ srv.decEsc = 1
  /\ srv.decPos = Len(MESSAGE) - 2
  /\ srv.decOut = HELLO_WORLD

\* A '%' with one character after it, taken as it is.
C40_WitnessLiteral ==
  /\ srv.mode = "inplace"
  /\ srv.decDone
  /\ srv.decIn = <<122, 37, 50>>
  /\ srv.decOut = <<122, 37, 50>>
  /\ srv.decEsc = 0

====
